---- MODULE Spec2Model ----
(***************************************************************************)
(* jaegercat (src/main.rs): a supervisor thread that binds one UDP socket  *)
(* per thrift protocol and spawns one listener thread per socket, a        *)
(* sampling responder thread serving HTTP, and the join loop.  Each        *)
(* listener runs receive -> decode -> lock stdout -> write -> unlock.      *)
(***************************************************************************)
EXTENDS Integers, Sequences, FiniteSets, TLC

\* ------------------------------------------------------------- bounds
\* Total number of datagrams the environment sends (all ports together).
MaxDatagrams == 2
\* The configured --udp-buffer-size, scaled down (default 65000).
udp_buffer_size == 3
\* Largest number of key=value pairs in a request's query string.
MaxParams == 2

\* ---------------------------------------------------- program constants
compact_thrift_port == 6831
binary_thrift_port == 6832

SAMPLE_ALL_RESP ==
    "{\"strategyType\": \"PROBABILISTIC\", \"probabilisticSampling\": {\"samplingRate\": 1}}"

\* enum Format
Formats == {"Raw", "Json", "JsonPretty"}

\* The (port, protocol) pairs the spawn loop iterates over, in order.
Listeners ==
    << [port |-> compact_thrift_port, protocol |-> "Compact"],
       [port |-> binary_thrift_port, protocol |-> "Binary"] >>

L == 1..2
\* Index of the sampling responder in the threads vector.
SamplingThread == 3

\* ------------------------------------------------------------ helpers
Min(a, b) == IF a < b THEN a ELSE b

\* --------------------------------------------------- thrift datagrams
\* The decoder (jaegercat::thrift) is not part of src/main.rs, which uses it
\* as a function of the received bytes and the protocol that returns a
\* message or an error.  Here a datagram decodes iff it starts with the
\* protocol's id byte and ends with the stop byte of its outermost struct;
\* the message is what lies between.
\* First byte of a message: the protocol id of the thrift encoding.
CompactMagic == 130
BinaryMagic == 128
\* Last byte of an encoded struct: the thrift stop field.
StopByte == 0
BodyByte == 7

Magic(protocol) == IF protocol = "Compact" THEN CompactMagic ELSE BinaryMagic

\* The datagrams the environment may send to either port: for each protocol
\* a short one and one longer than the buffer.  Cut to the buffer size the
\* long Compact one still decodes and the long Binary one does not; each is
\* malformed for the listener of the other protocol.
Datagrams ==
    { <<CompactMagic, StopByte>>,
      <<BinaryMagic, StopByte>>,
      <<CompactMagic, BodyByte, StopByte, StopByte>>,
      <<BinaryMagic, BodyByte, BodyByte, StopByte>> }

\* EmitBatchNotification::decode(bytes, protocol): Ok(message) or Err.
Decode(bytes, protocol) ==
    IF /\ Len(bytes) >= 2
       /\ bytes[1] = Magic(protocol)
       /\ bytes[Len(bytes)] = StopByte
    THEN [ok |-> TRUE, message |-> SubSeq(bytes, 2, Len(bytes) - 1)]
    ELSE [ok |-> FALSE, message |-> <<>>]

\* serdeconv::to_json_string / to_json_string_pretty of a decoded message.
ToJson(message) == [kind |-> "json", body |-> message]
ToJsonPretty(message) == [kind |-> "json-pretty", body |-> message]
Newline == [kind |-> "newline", body |-> <<>>]
RawBytes(bytes) == [kind |-> "bytes", body |-> bytes]

\* Variant of Chunks: Raw writes a Compact re-encoding of the decoded message.
ChunksReencoded(fmt, bytes, message) ==
    CASE fmt = "Raw" -> << RawBytes(<<CompactMagic>> \o message \o <<StopByte>>) >>
      [] fmt = "Json" -> << ToJson(message), Newline >>
      [] fmt = "JsonPretty" -> << ToJsonPretty(message), Newline >>

\* The write calls made on the locked stdout for one decoded datagram:
\* io::copy of the received bytes, or writeln! of the JSON text (the text,
\* then the newline).
Chunks(fmt, bytes, message) ==
    CASE fmt = "Raw" -> << RawBytes(bytes) >>
      [] fmt = "Json" -> << ToJson(message), Newline >>
      [] fmt = "JsonPretty" -> << ToJsonPretty(message), Newline >>

\* -------------------------------------------------------------- state
VARIABLES
    format,            \* the --format value, fixed at startup
    enabled_services,  \* svcs: the --sample-services allow-list
    mainPc,            \* supervisor: "bind", "spawn", "sampling", "join", "done", "panicked"
    mainIdx,           \* index of the spawn loop / the join loop
    exit,              \* "running", "ok" (main returned), "panic" (main panicked)
    bound,             \* bound[l]: the UDP socket of listener l is bound
    pc,                \* pc[l]: "unspawned", "recv", "decode", "lock", "write", "panicked"
    inbox,             \* inbox[l]: datagrams queued in the socket of listener l
    buf,               \* buf[l]: the receive buffer of listener l
    recv_size,         \* recv_size[l]: byte count of the last receive
    message,           \* message[l]: the message decoded in this iteration
    pending,           \* pending[l]: write calls still to make in this iteration
    stdoutLock,        \* holder of the stdout lock, 0 when free
    stdout,            \* the write calls standard output has accepted, in order
    samplingPc,        \* sampling thread: "unspawned", "bind", "serving", "panicked"
    lastReq,           \* the request the responder handled last
    lastResp,          \* the response it gave
    arrived,           \* history: arrived[l], every datagram delivered to socket l
    decodeLog,         \* history: (port received on, protocol decoded with)
    fatal,             \* history: fatal[l], the error that was returned to listener l
    bindFailed         \* history: the units whose bind failed

vars ==
    << format, enabled_services, mainPc, mainIdx, exit, bound, pc, inbox, buf,
       recv_size, message, pending, stdoutLock, stdout, samplingPc, lastReq,
       lastResp, arrived, decodeLog, fatal, bindFailed >>

udpVars ==
    << bound, pc, inbox, buf, recv_size, message, pending, stdoutLock, stdout,
       arrived, decodeLog, fatal >>

httpVars == << samplingPc, lastReq, lastResp >>

mainVars == << mainPc, mainIdx, exit, bindFailed >>

config == << format, enabled_services >>

NoRequest == [method |-> "", path |-> "", hasQuery |-> FALSE, query |-> <<>>]
NoResponse == [status |-> 0, body |-> ""]

\* The allow-lists the operator may configure.
AllowLists ==
    { {}, {"checkout"}, {"Checkout"}, {"unknown"}, {"checkout", "billing"} }

\* The allow-list of the scenario: --sample-services checkout.
ScenarioAllowList == {"checkout"}

\* The state main's spawn loop starts from: arguments parsed, nothing bound.
Startup ==
    /\ mainPc = "bind"
    /\ mainIdx = 1
    /\ exit = "running"
    /\ bound = [l \in L |-> FALSE]
    /\ pc = [l \in L |-> "unspawned"]
    /\ inbox = [l \in L |-> <<>>]
    /\ buf = [l \in L |-> [i \in 1..udp_buffer_size |-> 0]]
    /\ recv_size = [l \in L |-> 0]
    /\ message = [l \in L |-> <<>>]
    /\ pending = [l \in L |-> <<>>]
    /\ stdoutLock = 0
    /\ stdout = <<>>
    /\ samplingPc = "unspawned"
    /\ lastReq = NoRequest
    /\ lastResp = NoResponse
    /\ arrived = [l \in L |-> <<>>]
    /\ decodeLog = {}
    /\ fatal = [l \in L |-> "none"]
    /\ bindFailed = {}

Init ==
    /\ format \in Formats
    /\ enabled_services = ScenarioAllowList
    /\ Startup

\* --------------------------------------------------------- supervisor
\* UdpSocket::bind(addr) in the spawn loop: the socket is bound, or the
\* track_try_unwrap! panics the main thread, which ends the process.
Bind(l) ==
    /\ exit = "running"
    /\ mainPc = "bind"
    /\ mainIdx = l
    /\ \/ /\ bound' = [bound EXCEPT ![l] = TRUE]
          /\ mainPc' = "spawn"
          /\ UNCHANGED << exit, bindFailed >>
       \/ /\ mainPc' = "panicked"
          /\ exit' = "panic"
          /\ bindFailed' = bindFailed \cup {l}
          /\ UNCHANGED bound
    /\ UNCHANGED << mainIdx, pc, inbox, buf, recv_size, message, pending,
                    stdoutLock, stdout, arrived, decodeLog, fatal >>
    /\ UNCHANGED << config, httpVars >>

\* thread::spawn of the listener closure and threads.push(thread).
Spawn(l) ==
    /\ exit = "running"
    /\ mainPc = "spawn"
    /\ mainIdx = l
    /\ pc' = [pc EXCEPT ![l] = "recv"]
    /\ mainIdx' = l + 1
    /\ mainPc' = IF l = Len(Listeners) THEN "sampling" ELSE "bind"
    /\ UNCHANGED << exit, bindFailed, bound, inbox, buf, recv_size, message,
                    pending, stdoutLock, stdout, arrived, decodeLog, fatal >>
    /\ UNCHANGED << config, httpVars >>

\* thread::spawn of the agent sampling handler and threads.push(thread).
SpawnSampling ==
    /\ exit = "running"
    /\ mainPc = "sampling"
    /\ samplingPc' = "bind"
    /\ mainPc' = "join"
    /\ mainIdx' = 1
    /\ UNCHANGED << exit, bindFailed, lastReq, lastResp >>
    /\ UNCHANGED << config, udpVars >>

\* Whether thread t of the threads vector has ended (its closure never
\* returns: a thread ends by a panic only).
Terminated(t) ==
    IF t = SamplingThread THEN samplingPc = "panicked" ELSE pc[t] = "panicked"

\* Variant of Join: the supervisor does not wait for the thread to end.
JoinNoWait(t) ==
    /\ exit = "running"
    /\ mainPc = "join"
    /\ mainIdx = t
    /\ IF t = SamplingThread
       THEN /\ mainPc' = "done"
            /\ exit' = "ok"
            /\ UNCHANGED mainIdx
       ELSE /\ mainIdx' = t + 1
            /\ UNCHANGED << mainPc, exit >>
    /\ UNCHANGED bindFailed
    /\ UNCHANGED << config, udpVars, httpVars >>

\* One iteration of `for t in threads { let _ = t.join(); }`; main returns
\* after the last one.
Join(t) ==
    /\ exit = "running"
    /\ mainPc = "join"
    /\ mainIdx = t
    /\ Terminated(t)
    /\ IF t = SamplingThread
       THEN /\ mainPc' = "done"
            /\ exit' = "ok"
            /\ UNCHANGED mainIdx
       ELSE /\ mainIdx' = t + 1
            /\ UNCHANGED << mainPc, exit >>
    /\ UNCHANGED bindFailed
    /\ UNCHANGED << config, udpVars, httpVars >>

\* ----------------------------------------------------------- listeners
\* The port the socket moved into listener l's closure is bound to.
SocketPort(l) == Listeners[l].port

\* Variant of ThreadProtocol: every closure gets the first pair's protocol.
ThreadProtocolFirst(l) == Listeners[1].protocol

\* The protocol value moved into listener l's closure.
ThreadProtocol(l) == Listeners[l].protocol

\* Number of datagrams listener l has taken from its socket so far.
Received(l) == Len(arrived[l]) - Len(inbox[l])

TotalArrived == Len(arrived[1]) + Len(arrived[2])

\* Variant of Bytes: the whole buffer is handed on.
BytesWholeBuffer(l) == buf[l]

\* The slice &buf[..recv_size] of listener l.
Bytes(l) == SubSeq(buf[l], 1, recv_size[l])

\* The environment sends datagram d to a port: the kernel queues it in the
\* socket bound to that port.
Arrive(port, d) ==
    /\ exit = "running"
    /\ TotalArrived < MaxDatagrams
    /\ \E l \in L :
          /\ SocketPort(l) = port
          /\ bound[l]
          /\ inbox' = [inbox EXCEPT ![l] = Append(@, [to |-> port, bytes |-> d])]
          /\ arrived' = [arrived EXCEPT ![l] = Append(@, [to |-> port, bytes |-> d])]
    /\ UNCHANGED << bound, pc, buf, recv_size, message, pending, stdoutLock,
                    stdout, decodeLog, fatal >>
    /\ UNCHANGED << config, mainVars, httpVars >>

\* Variant of NextDatagram: the newest queued datagram is returned.
NewestDatagram(queue) == queue[Len(queue)]

\* The datagram recv_from returns: the oldest one queued in the socket.
NextDatagram(queue) == Head(queue)

\* Variant of Recv: the buffer is grown to take the whole datagram.
RecvWhole(l) ==
    /\ exit = "running"
    /\ pc[l] = "recv"
    /\ inbox[l] # <<>>
    /\ LET d == NextDatagram(inbox[l]).bytes
       IN /\ buf' = [buf EXCEPT ![l] =
                        [i \in 1..Len(d) |-> d[i]] \o SubSeq(@, Len(d) + 1, Len(@))]
          /\ recv_size' = [recv_size EXCEPT ![l] = Len(d)]
    /\ inbox' = [inbox EXCEPT ![l] = Tail(@)]
    /\ pc' = [pc EXCEPT ![l] = "decode"]
    /\ UNCHANGED << bound, message, pending, stdoutLock, stdout, arrived, decodeLog,
                    fatal >>
    /\ UNCHANGED << config, mainVars, httpVars >>

\* socket.recv_from(&mut buf) returning Ok((recv_size, peer)): the oldest
\* queued datagram is copied into the front of buf, cut to the buffer's length.
Recv(l) ==
    /\ exit = "running"
    /\ pc[l] = "recv"
    /\ inbox[l] # <<>>
    /\ LET d == NextDatagram(inbox[l]).bytes
           n == Min(Len(d), udp_buffer_size)
       IN /\ buf' = [buf EXCEPT ![l] =
                        [i \in 1..udp_buffer_size |-> IF i <= n THEN d[i] ELSE @[i]]]
          /\ recv_size' = [recv_size EXCEPT ![l] = n]
    /\ inbox' = [inbox EXCEPT ![l] = Tail(@)]
    /\ pc' = [pc EXCEPT ![l] = "decode"]
    /\ UNCHANGED << bound, message, pending, stdoutLock, stdout, arrived, decodeLog,
                    fatal >>
    /\ UNCHANGED << config, mainVars, httpVars >>

\* socket.recv_from returning Err: track_try_unwrap! panics the thread.
RecvError(l) ==
    /\ exit = "running"
    /\ pc[l] = "recv"
    /\ pc' = [pc EXCEPT ![l] = "panicked"]
    /\ fatal' = [fatal EXCEPT ![l] = "recv"]
    /\ UNCHANGED << bound, inbox, buf, recv_size, message, pending, stdoutLock,
                    stdout, arrived, decodeLog >>
    /\ UNCHANGED << config, mainVars, httpVars >>

\* Variant of OnDecodeErr: the error is unwrapped, which panics the thread.
OnDecodeErrAbort(l) ==
    /\ pc' = [pc EXCEPT ![l] = "panicked"]
    /\ UNCHANGED message

\* The Err(e) arm of the match on decode: two log lines, then the loop's
\* next iteration.
OnDecodeErr(l) ==
    /\ pc' = [pc EXCEPT ![l] = "recv"]
    /\ UNCHANGED message

\* Variant of OnDecodeOk: the message is decoded and dropped.
OnDecodeOkSkip(l, m) ==
    /\ pc' = [pc EXCEPT ![l] = "recv"]
    /\ message' = [message EXCEPT ![l] = m]

\* The Ok(message) arm up to the lock: the thread goes on to io::stdout().lock().
OnDecodeOk(l, m) ==
    /\ pc' = [pc EXCEPT ![l] = "lock"]
    /\ message' = [message EXCEPT ![l] = m]

\* EmitBatchNotification::decode(bytes, protocol) and the match on its result.
DecodeStep(l) ==
    /\ exit = "running"
    /\ pc[l] = "decode"
    /\ LET r == Decode(Bytes(l), ThreadProtocol(l))
       IN IF r.ok THEN OnDecodeOk(l, r.message) ELSE OnDecodeErr(l)
    /\ decodeLog' = decodeLog \cup
          { [port |-> arrived[l][Received(l)].to, protocol |-> ThreadProtocol(l)] }
    /\ UNCHANGED << bound, inbox, buf, recv_size, pending, stdoutLock, stdout, arrived,
                    fatal >>
    /\ UNCHANGED << config, mainVars, httpVars >>

\* Variant of LockStdout: the thread writes without waiting for the lock.
LockStdoutNoWait(l) ==
    /\ exit = "running"
    /\ pc[l] = "lock"
    /\ stdoutLock' = l
    /\ pending' = [pending EXCEPT ![l] = Chunks(format, Bytes(l), message[l])]
    /\ pc' = [pc EXCEPT ![l] = "write"]
    /\ UNCHANGED << bound, inbox, buf, recv_size, message, stdout, arrived, decodeLog,
                    fatal >>
    /\ UNCHANGED << config, mainVars, httpVars >>

\* stdout.lock(): blocks until no other thread holds the lock.  The thread
\* then has the write calls of its format ahead of it.
LockStdout(l) ==
    /\ exit = "running"
    /\ pc[l] = "lock"
    /\ stdoutLock = 0
    /\ stdoutLock' = l
    /\ pending' = [pending EXCEPT ![l] = Chunks(format, Bytes(l), message[l])]
    /\ pc' = [pc EXCEPT ![l] = "write"]
    /\ UNCHANGED << bound, inbox, buf, recv_size, message, stdout, arrived, decodeLog,
                    fatal >>
    /\ UNCHANGED << config, mainVars, httpVars >>

\* Variant of Release: a panicking thread keeps the lock it holds.
ReleaseNever(l) == stdoutLock

\* A panic while the guard is alive: unwinding drops the guard.
Release(l) == IF stdoutLock = l THEN 0 ELSE stdoutLock

\* serdeconv::to_json_string(&message) returning Err: track_try_unwrap! panics.
SerializeError(l) ==
    /\ exit = "running"
    /\ pc[l] = "write"
    /\ format # "Raw"
    /\ pending[l] = Chunks(format, Bytes(l), message[l])
    /\ pc' = [pc EXCEPT ![l] = "panicked"]
    /\ fatal' = [fatal EXCEPT ![l] = "serialize"]
    /\ pending' = [pending EXCEPT ![l] = <<>>]
    /\ stdoutLock' = Release(l)
    /\ UNCHANGED << bound, inbox, buf, recv_size, message, stdout, arrived, decodeLog >>
    /\ UNCHANGED << config, mainVars, httpVars >>

\* One write call on the locked stdout succeeding.
Write(l) ==
    /\ exit = "running"
    /\ pc[l] = "write"
    /\ pending[l] # <<>>
    /\ stdout' = Append(stdout, [by |-> l, n |-> Received(l), data |-> Head(pending[l])])
    /\ pending' = [pending EXCEPT ![l] = Tail(@)]
    /\ UNCHANGED << bound, pc, inbox, buf, recv_size, message, stdoutLock, arrived,
                    decodeLog, fatal >>
    /\ UNCHANGED << config, mainVars, httpVars >>

\* Variant of WriteError: the error is logged and the datagram skipped.
WriteErrorSkipped(l) ==
    /\ exit = "running"
    /\ pc[l] = "write"
    /\ pending[l] # <<>>
    /\ pc' = [pc EXCEPT ![l] = "recv"]
    /\ fatal' = [fatal EXCEPT ![l] = "write"]
    /\ pending' = [pending EXCEPT ![l] = <<>>]
    /\ stdoutLock' = Release(l)
    /\ UNCHANGED << bound, inbox, buf, recv_size, message, stdout, arrived, decodeLog >>
    /\ UNCHANGED << config, mainVars, httpVars >>

\* A write call returning Err: track_try_unwrap! panics the thread.
WriteError(l) ==
    /\ exit = "running"
    /\ pc[l] = "write"
    /\ pending[l] # <<>>
    /\ pc' = [pc EXCEPT ![l] = "panicked"]
    /\ fatal' = [fatal EXCEPT ![l] = "write"]
    /\ pending' = [pending EXCEPT ![l] = <<>>]
    /\ stdoutLock' = Release(l)
    /\ UNCHANGED << bound, inbox, buf, recv_size, message, stdout, arrived, decodeLog >>
    /\ UNCHANGED << config, mainVars, httpVars >>

\* Variant of Unlock: the guard outlives the iteration.
UnlockKeep(l) ==
    /\ exit = "running"
    /\ pc[l] = "write"
    /\ pending[l] = <<>>
    /\ pc' = [pc EXCEPT ![l] = "recv"]
    /\ UNCHANGED << bound, inbox, buf, recv_size, message, pending, stdoutLock, stdout,
                    arrived, decodeLog, fatal >>
    /\ UNCHANGED << config, mainVars, httpVars >>

\* Variant of Unlock: the closure returns after its first emitted message.
UnlockAndReturn(l) ==
    /\ exit = "running"
    /\ pc[l] = "write"
    /\ pending[l] = <<>>
    /\ stdoutLock' = Release(l)
    /\ pc' = [pc EXCEPT ![l] = "panicked"]
    /\ UNCHANGED << bound, inbox, buf, recv_size, message, pending, stdout, arrived,
                    decodeLog, fatal >>
    /\ UNCHANGED << config, mainVars, httpVars >>

\* End of the Ok arm: the guard goes out of scope, the loop starts over.
Unlock(l) ==
    /\ exit = "running"
    /\ pc[l] = "write"
    /\ pending[l] = <<>>
    /\ stdoutLock' = Release(l)
    /\ pc' = [pc EXCEPT ![l] = "recv"]
    /\ UNCHANGED << bound, inbox, buf, recv_size, message, pending, stdout, arrived,
                    decodeLog, fatal >>
    /\ UNCHANGED << config, mainVars, httpVars >>

\* -------------------------------------------------- sampling responder
Methods == {"GET", "POST"}
Paths == {"/sampling", "/"}
RawKeys == {"service", "Service"}
RawValues == {"checkout", "unknown", "check%6Fut"}
RawPairs == [k : RawKeys, v : RawValues]

\* Percent-decoding of one key or value, as form_urlencoded::parse does it.
PercentDecode(raw) == IF raw = "check%6Fut" THEN "checkout" ELSE raw

\* The query strings a request may carry: up to MaxParams key=value pairs
\* joined by "&", given as the sequence of the pairs.
Queries == UNION { [1..n -> RawPairs] : n \in 0..MaxParams }

\* A request: req.method(), req.path() and req.uri().query() (an Option).
Requests ==
    [method : Methods, path : Paths, hasQuery : {TRUE}, query : Queries]
    \cup [method : Methods, path : Paths, hasQuery : {FALSE}, query : {<<>>}]

\* The requests of the allow-list scenario: one for the allow-listed
\* service, and one that names no service.
ScenarioRequests ==
    { [method |-> "GET", path |-> "/sampling", hasQuery |-> TRUE,
       query |-> << [k |-> "service", v |-> "checkout"] >>],
      [method |-> "GET", path |-> "/sampling", hasQuery |-> FALSE, query |-> <<>>] }

RECURSIVE CollectParamsFirstWins(_, _)
\* Variant of CollectParams: a key already present keeps its first value.
CollectParamsFirstWins(pairs, map) ==
    IF pairs = <<>> THEN map
    ELSE LET k == PercentDecode(Head(pairs).k)
             v == PercentDecode(Head(pairs).v)
         IN CollectParamsFirstWins(Tail(pairs),
                [x \in DOMAIN map \cup {k} |-> IF x \in DOMAIN map THEN map[x] ELSE v])

RECURSIVE CollectParams(_, _)
\* .collect::<HashMap<String, String>>() of the decoded pairs: an insert
\* of a key already present replaces its value.
CollectParams(pairs, map) ==
    IF pairs = <<>> THEN map
    ELSE LET k == PercentDecode(Head(pairs).k)
             v == PercentDecode(Head(pairs).v)
         IN CollectParams(Tail(pairs),
                [x \in DOMAIN map \cup {k} |-> IF x = k THEN v ELSE map[x]])

\* form_urlencoded::parse(query).into_owned().collect()
ParseQuery(query) == CollectParams(query, << >>)

\* match req.uri().query() { Some(q) => q, None => "" }
QueryOf(req) == IF req.hasQuery THEN req.query ELSE <<>>

\* Variant of ServiceOf: an absent parameter yields the empty name.
ServiceOfEmptyDefault(params) ==
    IF "service" \in DOMAIN params THEN params["service"] ELSE ""

\* match params.get("service") { Some(n) => n, None => "unknown" }
ServiceOf(params) ==
    IF "service" \in DOMAIN params THEN params["service"] ELSE "unknown"

\* Lower-casing of a service name.
Lower(name) == IF name = "Checkout" THEN "checkout" ELSE name

\* Variant of Enabled: the lookup ignores case.
EnabledIgnoringCase(svc) == \E s \in enabled_services : Lower(s) = Lower(svc)

\* self.enabled_services.contains(svc)
Enabled(svc) == svc \in enabled_services

\* Variant of IsSamplingRoute: the method is not looked at.
IsSamplingPath(req) == req.path = "/sampling"

\* The (&Method::Get, "/sampling") pattern of the match in call.
IsSamplingRoute(req) == req.method = "GET" /\ req.path = "/sampling"

Ok200 == [status |-> 200, body |-> SAMPLE_ALL_RESP]
NotFound == [status |-> 404, body |-> ""]

\* SamplingService::call: the response to one request.
Respond(req) ==
    IF IsSamplingRoute(req)
    THEN IF Enabled(ServiceOf(ParseQuery(QueryOf(req)))) THEN Ok200 ELSE NotFound
    ELSE NotFound

\* Http::new().bind(&addr, ...).unwrap() in the sampling thread.
SamplingBind ==
    /\ exit = "running"
    /\ samplingPc = "bind"
    /\ \/ /\ samplingPc' = "serving"
          /\ UNCHANGED bindFailed
       \/ /\ samplingPc' = "panicked"
          /\ bindFailed' = bindFailed \cup {SamplingThread}
    /\ UNCHANGED << mainPc, mainIdx, exit, lastReq, lastResp >>
    /\ UNCHANGED << config, udpVars >>

\* server.run() returning Err: the unwrap panics the sampling thread.
SamplingRunError ==
    /\ exit = "running"
    /\ samplingPc = "serving"
    /\ samplingPc' = "panicked"
    /\ UNCHANGED << lastReq, lastResp >>
    /\ UNCHANGED << config, udpVars, mainVars >>

\* Variant of Call: a 200 answer is cached and served to later requests.
CallCached(req) ==
    /\ exit = "running"
    /\ samplingPc = "serving"
    /\ lastReq' = req
    /\ lastResp' = IF lastResp = Ok200 THEN Ok200 ELSE Respond(req)
    /\ UNCHANGED samplingPc
    /\ UNCHANGED << config, udpVars, mainVars >>

\* The server hands one request to SamplingService::call.
Call(req) ==
    /\ exit = "running"
    /\ samplingPc = "serving"
    /\ lastReq' = req
    /\ lastResp' = Respond(req)
    /\ UNCHANGED samplingPc
    /\ UNCHANGED << config, udpVars, mainVars >>

\* ------------------------------------------------------ specifications
Next ==
    \/ \E l \in L : Bind(l)
    \/ \E l \in L : Spawn(l)
    \/ SpawnSampling
    \/ \E t \in 1..SamplingThread : Join(t)
    \/ \E l \in L : \E d \in Datagrams : Arrive(SocketPort(l), d)
    \/ \E l \in L : Recv(l)
    \/ \E l \in L : RecvError(l)
    \/ \E l \in L : DecodeStep(l)
    \/ \E l \in L : LockStdout(l)
    \/ \E l \in L : SerializeError(l)
    \/ \E l \in L : Write(l)
    \/ \E l \in L : WriteError(l)
    \/ \E l \in L : Unlock(l)
    \/ SamplingBind
    \/ SamplingRunError
    \/ \E req \in ScenarioRequests : Call(req)

\* The whole process: supervisor, both listeners and the sampling responder.
Spec == Init /\ [][Next]_vars

\* The state once startup has succeeded for both listeners and the sampling
\* thread has been spawned, under any allow-list.
InitSampling ==
    /\ format = "Json"
    /\ enabled_services \in AllowLists
    /\ mainPc = "join"
    /\ mainIdx = 1
    /\ exit = "running"
    /\ bound = [l \in L |-> TRUE]
    /\ pc = [l \in L |-> "recv"]
    /\ inbox = [l \in L |-> <<>>]
    /\ buf = [l \in L |-> [i \in 1..udp_buffer_size |-> 0]]
    /\ recv_size = [l \in L |-> 0]
    /\ message = [l \in L |-> <<>>]
    /\ pending = [l \in L |-> <<>>]
    /\ stdoutLock = 0
    /\ stdout = <<>>
    /\ samplingPc = "bind"
    /\ lastReq = NoRequest
    /\ lastResp = NoResponse
    /\ arrived = [l \in L |-> <<>>]
    /\ decodeLog = {}
    /\ fatal = [l \in L |-> "none"]
    /\ bindFailed = {}

NextSampling ==
    \/ SamplingBind
    \/ SamplingRunError
    \/ \E req \in Requests : Call(req)

\* The sampling responder alone, over every request and allow-list.
SpecSampling == InitSampling /\ [][NextSampling]_vars

\* ------------------------------------------------------------- claims
IsPrefix(s, t) == Len(s) <= Len(t) /\ SubSeq(t, 1, Len(s)) = s

\* The entries of the stdout sequence s written by listener l, in order.
SelectBy(s, l) == SelectSeq(s, LAMBDA e : e.by = l)

\* The bytes of listener l's i-th datagram that fit the receive buffer.
Handed(l, i) ==
    LET b == arrived[l][i].bytes IN SubSeq(b, 1, Min(Len(b), udp_buffer_size))

\* The decode of listener l's i-th datagram under the protocol of its port.
DecodedAt(l, i) == Decode(Handed(l, i), Listeners[l].protocol)

\* The one line a datagram is to produce in a format: the received bytes, or
\* the JSON text of the message and a newline.
FormattedLine(fmt, bytes, msg) ==
    CASE fmt = "Raw" -> << [kind |-> "bytes", body |-> bytes] >>
      [] fmt = "Json" ->
           << [kind |-> "json", body |-> msg], [kind |-> "newline", body |-> <<>>] >>
      [] fmt = "JsonPretty" ->
           << [kind |-> "json-pretty", body |-> msg], [kind |-> "newline", body |-> <<>>] >>

\* What listener l's i-th datagram is to produce: one line if it decodes.
ExpectedFor(l, i) ==
    IF DecodedAt(l, i).ok
    THEN FormattedLine(format, Handed(l, i), DecodedAt(l, i).message)
    ELSE <<>>

RECURSIVE ExpectedOutput(_, _)
\* What listener l's first k datagrams are to produce, in arrival order.
ExpectedOutput(l, k) ==
    IF k <= 0 THEN <<>> ELSE ExpectedOutput(l, k - 1) \o ExpectedFor(l, k)

\* What listener l has written to standard output, in order.
DataBy(l) == LET e == SelectBy(stdout, l) IN [j \in DOMAIN e |-> e[j].data]

\* What standard output holds for listener l's i-th datagram, in order.
SelectFor(s, l, i) ==
    LET e == SelectSeq(s, LAMBDA x : x.by = l /\ x.n = i)
    IN [j \in DOMAIN e |-> e[j].data]

\* Number of datagrams whose loop iteration listener l has completed.
Processed(l) == IF pc[l] = "recv" THEN Received(l) ELSE Received(l) - 1

\* C1: in every format, a datagram whose decode fails produces no write to
\* standard output and does not end the loop: the step that handles the
\* failure leaves stdout and its lock alone and puts the listener back at
\* its receive.
C1_DecodeFailureSkipped ==
    [][ \A l \in L :
          ( /\ pc[l] = "decode"
            /\ ~Decode(Bytes(l), Listeners[l].protocol).ok
            /\ pc'[l] # "decode" )
          => ( /\ stdout' = stdout
               /\ stdoutLock' = stdoutLock
               /\ pc'[l] = "recv"
               /\ inbox'[l] = inbox[l] ) ]_vars

\* C1 witness: a listener received a datagram that does not decode, then a
\* well-formed one, and wrote output for the second only.
C1_Witness ==
    \E l \in L :
        /\ Received(l) = 2
        /\ pc[l] = "recv"
        /\ ~DecodedAt(l, 1).ok
        /\ DecodedAt(l, 2).ok
        /\ SelectFor(stdout, l, 1) = <<>>
        /\ SelectFor(stdout, l, 2) # <<>>

\* C2: while a listener has not aborted, every datagram it has finished
\* with has produced exactly one formatted line if it is well-formed (it
\* decodes), and nothing otherwise.
C2_OneLinePerWellFormed ==
    \A l \in L :
        pc[l] \notin {"unspawned", "panicked"} =>
            \A i \in 1..Processed(l) : SelectFor(stdout, l, i) = ExpectedFor(l, i)

\* C2 witness: a listener has finished with two well-formed datagrams and
\* standard output holds one line for each.
C2_Witness ==
    \E l \in L :
        /\ pc[l] = "recv"
        /\ Received(l) = 2
        /\ DecodedAt(l, 1).ok
        /\ DecodedAt(l, 2).ok
        /\ SelectFor(stdout, l, 1) = ExpectedFor(l, 1)
        /\ SelectFor(stdout, l, 2) = ExpectedFor(l, 2)
        /\ Len(SelectBy(stdout, l)) = Len(ExpectedFor(l, 1)) + Len(ExpectedFor(l, 2))

\* C6: every decode uses the protocol of the listener whose socket received
\* the datagram: Compact on the compact port, Binary on the binary port.
C6_ProtocolOfReceivingPort ==
    \A r \in decodeLog :
        /\ r.port = compact_thrift_port => r.protocol = "Compact"
        /\ r.port = binary_thrift_port => r.protocol = "Binary"

\* C6 witness: both listeners have a datagram in hand at once, and both
\* ports have seen a decode.
C6_Witness ==
    /\ Cardinality(decodeLog) = 2
    /\ pc[1] \in {"decode", "lock", "write"}
    /\ pc[2] \in {"decode", "lock", "write"}

\* C7: the writes of one message are contiguous on standard output: no
\* write of another message lies between two writes of the same message.
C7_MessagesContiguous ==
    \A i, k \in DOMAIN stdout :
        (i < k /\ stdout[i].by = stdout[k].by /\ stdout[i].n = stdout[k].n) =>
            \A j \in i..k : stdout[j].by = stdout[i].by /\ stdout[j].n = stdout[i].n

\* C7 witness: one listener is in the middle of a two-write message while
\* the other waits for the lock with a message of its own.
C7_Witness ==
    \E l, m \in L :
        /\ l # m
        /\ pc[l] = "write"
        /\ Len(pending[l]) = 1
        /\ format # "Raw"
        /\ pc[m] = "lock"

\* C8: a listener handles its datagrams in arrival order, one at a time:
\* its output is the lines of its well-formed datagrams in arrival order,
\* and when it receives a datagram the output of all earlier ones is complete
\* and it holds neither the lock nor unwritten output.
C8_ArrivalOrder ==
    \A l \in L :
        LET out == DataBy(l)
            all == ExpectedOutput(l, Received(l))
        IN /\ Len(out) <= Len(all)
           /\ \A j \in DOMAIN out : out[j] = all[j]
           /\ pc[l] \in {"recv", "decode"} =>
                 /\ out = ExpectedOutput(l, Processed(l))
                 /\ stdoutLock # l
                 /\ pending[l] = <<>>

\* C8 witness: one listener has received two different well-formed
\* datagrams and has written the lines of both, in their arrival order.
C8_Witness ==
    \E l \in L :
        /\ Received(l) = 2
        /\ pc[l] = "recv"
        /\ DecodedAt(l, 1).ok
        /\ DecodedAt(l, 2).ok
        /\ arrived[l][1] # arrived[l][2]
        /\ DataBy(l) = ExpectedFor(l, 1) \o ExpectedFor(l, 2)

\* C9: a bind failure of any unit (either UDP listener or the sampling
\* responder) aborts the whole process with a non-zero exit before any
\* listener has written output.
C9_BindFailureAbortsProcess ==
    bindFailed # {} => (exit = "panic" /\ stdout = <<>>)

\* C10: the process does not reach normal termination while a listener or
\* the sampling responder is still running.
C10_ExitWaitsForAllUnits ==
    (exit = "ok" \/ mainPc = "done") =>
        /\ \A l \in L : pc[l] = "panicked"
        /\ samplingPc = "panicked"

\* C10 witness: main has returned after all three units ended.
C10_Witness == exit = "ok" /\ mainPc = "done" /\ stdout # <<>>

\* The decoded values of the service parameters a request carries.
ServiceValues(req) ==
    { PercentDecode(QueryOf(req)[i].v) :
        i \in { j \in DOMAIN QueryOf(req) : PercentDecode(QueryOf(req)[j].k) = "service" } }

Handled == lastReq # NoRequest

GetSampling(req) == req.method = "GET" /\ req.path = "/sampling"

\* C3: a GET /sampling request carrying service=X is answered 200 with the
\* fixed sampling body iff X is in the allow-list (exact, case-sensitive
\* equality), and 404 otherwise.
C3_AllowListDecides ==
    \A X \in ServiceValues(lastReq) :
        (Handled /\ GetSampling(lastReq) /\ ServiceValues(lastReq) = {X}) =>
            /\ (X \in enabled_services) <=>
                  (lastResp.status = 200 /\ lastResp.body = SAMPLE_ALL_RESP)
            /\ (X \notin enabled_services) <=> (lastResp.status = 404)

\* C3 witness: a request for an allow-listed service has been answered 200,
\* under an allow-list that also lacks the name in another case.
C3_Witness ==
    /\ Handled
    /\ GetSampling(lastReq)
    /\ ServiceValues(lastReq) = {"checkout"}
    /\ "Checkout" \notin enabled_services
    /\ lastResp = Ok200

\* C4: a GET /sampling request with no service parameter is answered as
\* service=unknown is: 200 with the fixed body iff "unknown" is in the
\* allow-list, 404 otherwise.
C4_AbsentServiceIsUnknown ==
    (Handled /\ GetSampling(lastReq) /\ ServiceValues(lastReq) = {}) =>
        /\ lastResp = IF "unknown" \in enabled_services THEN Ok200 ELSE NotFound
        /\ lastResp =
             Respond([method |-> "GET", path |-> "/sampling", hasQuery |-> TRUE,
                      query |-> << [k |-> "service", v |-> "unknown"] >>])

\* C4 witness: a request without any query has been answered 200 because
\* the operator allow-listed the literal name unknown.
C4_Witness ==
    /\ Handled
    /\ GetSampling(lastReq)
    /\ ~lastReq.hasQuery
    /\ "unknown" \in enabled_services
    /\ lastResp = Ok200

\* C5: a request whose method is not GET or whose path is not /sampling is
\* answered 404 with an empty body, whatever the allow-list and the query.
C5_OtherRoutesNotFound ==
    (Handled /\ ~GetSampling(lastReq)) =>
        (lastResp.status = 404 /\ lastResp.body = "")

\* C5 witness: a POST to /sampling naming an allow-listed service got 404.
C5_Witness ==
    /\ Handled
    /\ lastReq.method = "POST"
    /\ lastReq.path = "/sampling"
    /\ ServiceValues(lastReq) = {"checkout"}
    /\ "checkout" \in enabled_services
    /\ lastResp = NotFound

\* C11: the exit of a unit is not masked: once a listener or the sampling
\* responder has terminated (each of them ends only by a panic), the process
\* does not finish reporting success.
C11_UnitExitNotMasked ==
    (\E t \in L \cup {SamplingThread} : Terminated(t)) => exit # "ok"

\* The datagram listener l currently has in hand, as it arrived on the socket.
InHand(l) == arrived[l][Received(l)].bytes

\* C12: whenever a listener is about to decode, the bytes it hands to the
\* decoder are the first min(datagram length, buffer size) bytes of the
\* datagram it received: never more than the buffer size, and exactly the
\* buffer size when the datagram is larger than the buffer.
C12_TruncatedToBufferSize ==
    \A l \in L :
        pc[l] = "decode" =>
            /\ Len(Bytes(l)) = Min(Len(InHand(l)), udp_buffer_size)
            /\ Len(Bytes(l)) <= udp_buffer_size
            /\ Bytes(l) = SubSeq(InHand(l), 1, Len(Bytes(l)))
            /\ Len(InHand(l)) > udp_buffer_size => Len(Bytes(l)) = udp_buffer_size

\* C12 witness: a listener is about to decode a datagram that is larger
\* than its buffer and that, cut to the buffer size, no longer decodes.
C12_Witness ==
    \E l \in L :
        /\ pc[l] = "decode"
        /\ Len(InHand(l)) > udp_buffer_size
        /\ recv_size[l] = udp_buffer_size
        /\ Decode(InHand(l), ThreadProtocol(l)).ok
        /\ ~Decode(Bytes(l), ThreadProtocol(l)).ok

\* C13 as stated: with format Raw, what standard output holds for a
\* successfully decoded datagram is the original input datagram, byte for
\* byte, with nothing added or removed.
C13_RawIdenticalToDatagram ==
    format = "Raw" =>
        \A l \in L :
            pc[l] \notin {"unspawned", "panicked"} =>
                \A i \in 1..Processed(l) :
                    DecodedAt(l, i).ok =>
                        SelectFor(stdout, l, i) = << RawBytes(arrived[l][i].bytes) >>

\* C13 amended: with format Raw, what standard output holds for a
\* successfully decoded datagram is exactly the bytes received for it, in one
\* write: the original datagram when it fits the buffer, and its first
\* udp_buffer_size bytes when it is larger.
C13_RawIdenticalToReceived ==
    format = "Raw" =>
        \A l \in L :
            pc[l] \notin {"unspawned", "panicked"} =>
                \A i \in 1..Processed(l) :
                    DecodedAt(l, i).ok =>
                        LET d == arrived[l][i].bytes
                            out == SelectFor(stdout, l, i)
                        IN /\ Len(out) = 1
                           /\ out[1].kind = "bytes"
                           /\ IsPrefix(out[1].body, d)
                           /\ Len(out[1].body) = Min(Len(d), udp_buffer_size)

\* C13 witness: in Raw format a listener has emitted one datagram that fits
\* the buffer, whole, and one that is larger than the buffer, cut short.
C13_Witness ==
    /\ format = "Raw"
    /\ \E l \in L :
          /\ pc[l] = "recv"
          /\ Received(l) = 2
          /\ Len(arrived[l][1].bytes) <= udp_buffer_size
          /\ Len(arrived[l][2].bytes) > udp_buffer_size
          /\ DataBy(l) = << RawBytes(arrived[l][1].bytes),
                            RawBytes(SubSeq(arrived[l][2].bytes, 1, udp_buffer_size)) >>

\* C14: a receive error or an error writing to standard output is fatal for
\* the listener it happens to: the step that meets the error aborts the
\* listener instead of returning it to its receive, and an aborted listener
\* stays aborted, takes no further datagram from its socket and writes
\* nothing further.
C14_IoErrorsFatal ==
    [][ \A l \in L :
          /\ fatal'[l] # "none" => pc'[l] = "panicked"
          /\ pc[l] = "panicked" =>
                /\ pc'[l] = "panicked"
                /\ Len(arrived'[l]) - Len(inbox'[l]) = Received(l)
                /\ SelectBy(stdout', l) = SelectBy(stdout, l) ]_vars

\* C14 witness: a listener aborted on a failed write after the first write
\* of a line, and a later datagram stays unreceived in its socket while the
\* other listener has not aborted.
C14_Witness ==
    \E l, m \in L :
        /\ pc[l] = "panicked"
        /\ fatal[l] = "write"
        /\ SelectBy(stdout, l) # <<>>
        /\ inbox[l] # <<>>
        /\ m # l
        /\ pc[m] # "panicked"

\* C15 as stated: within a running process a listener's loop ends only by
\* an unrecoverable receive error.
C15_ExitsOnlyByRecvError ==
    \A l \in L : pc[l] = "panicked" => fatal[l] = "recv"

\* C15 amended: within a running process a listener's loop ends only by an
\* unrecoverable receive error, an error writing to standard output or an
\* error serializing the message; a decode failure or a completed message
\* never ends it.
C15_ExitsOnlyByFatalError ==
    \A l \in L :
        /\ pc[l] = "panicked" => fatal[l] \in {"recv", "serialize", "write"}
        /\ (pc[l] # "unspawned" /\ fatal[l] = "none") =>
              pc[l] \in {"recv", "decode", "lock", "write"}

\* C15 witness: one listener's loop ended by a receive error after it had
\* emitted a well-formed datagram and gone back to its receive, and the other
\* listener's loop ended by a failed write.
C15_Witness ==
    \E l, m \in L :
        /\ pc[l] = "panicked"
        /\ fatal[l] = "recv"
        /\ Received(l) = 1
        /\ DecodedAt(l, 1).ok
        /\ SelectFor(stdout, l, 1) = ExpectedFor(l, 1)
        /\ pc[m] = "panicked"
        /\ fatal[m] = "write"

\* Listener m can take the next step of its loop: receive a queued datagram,
\* decode, take the lock, write, or finish the message.
CanProceed(m) ==
    /\ (pc[m] = "recv" /\ inbox[m] # <<>>) => ENABLED Recv(m)
    /\ pc[m] = "decode" => ENABLED DecodeStep(m)
    /\ pc[m] = "lock" => ENABLED LockStdout(m)
    /\ (pc[m] = "write" /\ pending[m] # <<>>) => ENABLED Write(m)
    /\ (pc[m] = "write" /\ pending[m] = <<>>) => ENABLED Unlock(m)

\* C16 as stated: while the process runs, whatever point of its
\* receive/decode/emit processing the other listener has aborted or is
\* stopped at, a listener can take the next step of its own loop.
C16_StallIsolated ==
    \A m \in L : exit = "running" => CanProceed(m)

\* C16 amended: a listener that has aborted holds no lock, and while the
\* process runs a listener can take the next step of its own loop whenever
\* the other listener is anywhere but in the middle of emitting a message;
\* while the other is emitting, it can still receive and decode.
C16_IsolatedOutsideEmit ==
    \A l, m \in L :
        l # m =>
            /\ pc[l] = "panicked" => stdoutLock # l
            /\ (exit = "running" /\ (pc[l] # "write" \/ pc[m] \in {"recv", "decode"})) =>
                  CanProceed(m)

\* C16 witness: one listener aborted on a failed write in the middle of a
\* line, and the other listener has since emitted a whole line of its own.
C16_Witness ==
    \E l, m \in L :
        /\ l # m
        /\ format # "Raw"
        /\ pc[l] = "panicked"
        /\ fatal[l] = "write"
        /\ Len(SelectBy(stdout, l)) = 1
        /\ stdout[1].by = l
        /\ pc[m] = "recv"
        /\ Received(m) = 1
        /\ DecodedAt(m, 1).ok
        /\ SelectFor(stdout, m, 1) = ExpectedFor(m, 1)

\* C17: the sampling responder is stateless per request: whatever requests
\* were answered before and whatever the UDP listeners have done, the
\* allow-list is the one given at startup and the last response is the one
\* fixed by the last request's method, path and query and that allow-list.
C17_ResponderStateless ==
    /\ enabled_services = ScenarioAllowList
    /\ Handled =>
          lastResp =
              IF /\ lastReq.method = "GET"
                 /\ lastReq.path = "/sampling"
                 /\ ServiceOf(ParseQuery(QueryOf(lastReq))) \in ScenarioAllowList
              THEN Ok200
              ELSE NotFound

\* C17 witness: a request for a service that is not allow-listed has been
\* answered 404 while one listener is in the middle of emitting a message
\* and the other has aborted, after UDP output was written.
C17_Witness ==
    /\ Handled
    /\ GetSampling(lastReq)
    /\ ~lastReq.hasQuery
    /\ lastResp = NotFound
    /\ stdout # <<>>
    /\ \E l, m \in L : pc[l] = "write" /\ stdoutLock = l /\ pc[m] = "panicked"

\* C18: the receive buffer is reused without contamination: it always has
\* udp_buffer_size bytes; the message a listener holds after a successful
\* decode is the decode of the bytes received for the datagram in hand
\* alone; and in Raw format every emitted byte sequence is the bytes received
\* for its datagram alone, whatever an earlier datagram left in the buffer.
C18_BufferReusedCleanly ==
    \A l \in L :
        /\ Len(buf[l]) = udp_buffer_size
        /\ recv_size[l] <= udp_buffer_size
        /\ pc[l] \in {"lock", "write"} =>
              /\ DecodedAt(l, Received(l)).ok
              /\ message[l] = DecodedAt(l, Received(l)).message
        /\ format = "Raw" =>
              \A j \in DOMAIN stdout :
                  stdout[j].by = l => stdout[j].data = RawBytes(Handed(l, stdout[j].n))

\* C18 witness: a listener received a datagram that filled its buffer and
\* then a shorter one; a byte of the first is still in the buffer behind the
\* second, and the second was decoded and emitted as sent.
C18_Witness ==
    \E l \in L :
        /\ Received(l) = 2
        /\ pc[l] = "recv"
        /\ Len(arrived[l][1].bytes) >= udp_buffer_size
        /\ recv_size[l] = Len(arrived[l][2].bytes)
        /\ recv_size[l] < udp_buffer_size
        /\ buf[l][recv_size[l] + 1] = BodyByte
        /\ DecodedAt(l, 2).ok
        /\ SelectFor(stdout, l, 2) = ExpectedFor(l, 2)

\* C19: a listener holds the standard-output lock exactly while it emits
\* one message: it holds it only for a datagram that decoded, it does not
\* hold it while it waits for or decodes a datagram or after it has aborted,
\* and a listener none of whose datagrams decoded has never emitted.
C19_LockOnlyWhileEmitting ==
    \A l \in L :
        /\ stdoutLock = l <=> pc[l] = "write"
        /\ stdoutLock = l => DecodedAt(l, Received(l)).ok
        /\ pc[l] \in {"unspawned", "recv", "decode", "lock", "panicked"} =>
              (stdoutLock # l /\ pending[l] = <<>>)
        /\ (\A i \in 1..Received(l) : ~DecodedAt(l, i).ok) =>
              (stdoutLock # l /\ SelectBy(stdout, l) = <<>>)

\* C19 witness: one listener aborted on a failed write and the lock is
\* free again, while the other listener, which has only received a
\* malformed datagram, waits for its next one without having emitted.
C19_Witness ==
    \E l, m \in L :
        /\ l # m
        /\ pc[l] = "panicked"
        /\ fatal[l] = "write"
        /\ stdoutLock = 0
        /\ pc[m] = "recv"
        /\ inbox[m] = <<>>
        /\ Received(m) = 1
        /\ ~DecodedAt(m, 1).ok
        /\ SelectBy(stdout, m) = <<>>

\* The positions in a request's query of the pairs whose key is service.
ServicePositions(req) ==
    { j \in DOMAIN QueryOf(req) : PercentDecode(QueryOf(req)[j].k) = "service" }

\* The decoded value of the last service parameter of a request's query.
LastServiceValue(req) ==
    LET last == CHOOSE j \in ServicePositions(req) :
                    \A i \in ServicePositions(req) : i <= j
    IN PercentDecode(QueryOf(req)[last].v)

\* C20: a GET /sampling request whose query carries the service parameter
\* more than once is answered on its last occurrence alone: 200 with the
\* fixed body iff that last value is in the allow-list, 404 otherwise.
C20_LastServiceDecides ==
    (Handled /\ GetSampling(lastReq) /\ Cardinality(ServicePositions(lastReq)) >= 2) =>
        /\ (LastServiceValue(lastReq) \in enabled_services) <=> lastResp = Ok200
        /\ (LastServiceValue(lastReq) \notin enabled_services) <=> lastResp = NotFound

\* C20 witness: a query naming an allow-listed service first and a service
\* that is not allow-listed last has been answered 404.
C20_Witness ==
    /\ Handled
    /\ GetSampling(lastReq)
    /\ lastReq.hasQuery
    /\ lastReq.query = << [k |-> "service", v |-> "checkout"],
                          [k |-> "service", v |-> "unknown"] >>
    /\ enabled_services = {"checkout"}
    /\ lastResp = NotFound

====
